---- MODULE Spec2Model ----
(***************************************************************************)
(* Model of the OpenAI-Python-Wrapper request pipeline:                    *)
(*   HTTP route (routes/api_routes.py)                                     *)
(*     -> OpenAIService (services/openai_service.py)                       *)
(*       -> OpenAIUtils, the provider adapter (utils/openai_utils.py)      *)
(*         -> the provider (openai.Completion / openai.ChatCompletion)     *)
(* and back through the try/except blocks of the three layers and the      *)
(* exception handlers of main.py.                                          *)
(*                                                                         *)
(* Strings are sequences of tokens: a caller-supplied string is a sequence *)
(* of characters, a string literal of the source is one token, and an      *)
(* f-string is the concatenation (\o) of its literal and formatted parts.  *)
(* Python values are tagged records (PyNone, PyStr, PyInt, PyFloat), so    *)
(* that an explicit None is a value distinct from an absent key.           *)
(* Floats are written in tenths (0.7 is PyFloat(7)).                       *)
(***************************************************************************)
EXTENDS Integers, Sequences, FiniteSets, TLC

VARIABLES
    build,      \* which str(HTTPException) the installed starlette provides
    nslots,     \* number of request slots in use (1: one request at a time)
    pc,         \* per request: "idle", "awaiting" (suspended at the provider call), "done"
    request,    \* per request: what the HTTP caller sent: [op, params]
    svcCall,    \* per request: the arguments the route passed to the service
    adpCall,    \* per request: the arguments the service passed to the adapter
    provCalls,  \* per request: the sequence of calls issued to the provider
    provOut,    \* per request: how the provider call ended
    adp,        \* per request: how the adapter method ended
    svc,        \* per request: how the service method ended
    rt,         \* per request: how the route function ended
    handled,    \* per request: what an exception handler of main.py returned
    http        \* per request: the HTTP response on the wire

vars == <<build, nslots, pc, request, svcCall, adpCall, provCalls, provOut,
          adp, svc, rt, handled, http>>

----------------------------------------------------------------------------
(* Bounds *)

MaxReqs == 2
MaxStrLen == 1
MaxChoices == 2

Reqs == 1..MaxReqs

Chars == {"a", " "}

\* caller-supplied strings: every character sequence up to MaxStrLen
Strings == UNION {[1..n -> Chars] : n \in 0..MaxStrLen}

----------------------------------------------------------------------------
(* Python values *)

PyNone == [py |-> "None"]
PyStr(s) == [py |-> "str", v |-> s]
PyInt(n) == [py |-> "int", v |-> n]
PyFloat(tenths) == [py |-> "float", v |-> tenths]

\* outcomes of a call
Pending == [kind |-> "pending"]
Return(v) == [kind |-> "return", value |-> v]
Raise(e) == [kind |-> "raise", exc |-> e]

\* exceptions
Exc(type, msg) == [type |-> type, status_code |-> 0, detail |-> <<>>, msg |-> msg]

HTTPException(status_code, detail) ==
    [type |-> "HTTPException", status_code |-> status_code, detail |-> detail, msg |-> <<>>]

Builds == {"str_empty", "str_status_detail"}

\* str(e), as the f-strings "{e}" compute it.  An HTTPException is built with
\* keyword arguments only, so its args are empty: str(e) is "" on a starlette
\* without HTTPException.__str__, and "<status_code>: <detail>" on one with it.
Str(e) ==
    IF e.type = "HTTPException"
    THEN IF build = "str_status_detail"
         THEN <<ToString(e.status_code), ": ">> \o e.detail
         ELSE <<>>
    ELSE e.msg

Ops == {"generate_text", "translate_text", "complete_code"}

----------------------------------------------------------------------------
(* What an HTTP caller can send *)

Nullable == {"max_tokens", "top_p", "stop"}
Defaulted == {"model", "temperature", "frequency_penalty", "presence_penalty"}

\* the value a caller sends for an optional parameter it does send
Supplied(n) ==
    CASE n = "model" -> PyStr(<<"custom-model">>)
      [] n = "max_tokens" -> PyInt(16)
      [] n = "temperature" -> PyFloat(2)
      [] n = "top_p" -> PyFloat(9)
      [] n = "frequency_penalty" -> PyFloat(5)
      [] n = "presence_penalty" -> PyFloat(-5)
      [] n = "stop" -> PyStr(<<"a">>)

\* Requests that carry the required parameters where the route functions
\* read them: their parameters are declared as plain str/int/float, which
\* FastAPI binds from the query string.  A parameter the caller leaves out is
\* absent from params.
CompletionParams ==
    { [n \in {"prompt"} \cup S \cup D |->
          IF n = "prompt" THEN PyStr(p) ELSE Supplied(n)] :
      p \in Strings, S \in SUBSET Nullable, D \in {{}, Defaulted} }

TranslationParams ==
    { [n \in {"text", "target_language"} \cup D |->
          IF n = "text" THEN PyStr(t)
          ELSE IF n = "target_language" THEN PyStr(l)
          ELSE Supplied(n)] :
      t \in Strings, l \in Strings, D \in {{}, {"model"}} }

Requests ==
    { [op |-> o, params |-> p] : o \in {"generate_text", "complete_code"},
                                 p \in CompletionParams }
    \cup { [op |-> "translate_text", params |-> p] : p \in TranslationParams }

\* a parameter of a route function: the caller's value, or the declared default
Arg(params, n, default) == IF n \in DOMAIN params THEN params[n] ELSE default

----------------------------------------------------------------------------
(* routes/api_routes.py: parameters and the call of the service *)

\* generate_text's parameters (signature) as passed, in order, to
\* openai_service.generate_text, keyed by the service's parameter names
route_generate_text_call(params) ==
    [prompt |-> params["prompt"],
     model |-> Arg(params, "model", PyStr(<<"text-davinci-003">>)),
     max_tokens |-> Arg(params, "max_tokens", PyNone),
     temperature |-> Arg(params, "temperature", PyFloat(7)),
     top_p |-> Arg(params, "top_p", PyNone),
     frequency_penalty |-> Arg(params, "frequency_penalty", PyFloat(0)),
     presence_penalty |-> Arg(params, "presence_penalty", PyFloat(0)),
     stop |-> Arg(params, "stop", PyNone)]

route_translate_text_call(params) ==
    [text |-> params["text"],
     target_language |-> params["target_language"],
     model |-> Arg(params, "model", PyStr(<<"gpt-3.5-turbo">>))]

route_complete_code_call(params) ==
    [prompt |-> params["prompt"],
     model |-> Arg(params, "model", PyStr(<<"code-davinci-002">>)),
     max_tokens |-> Arg(params, "max_tokens", PyNone),
     temperature |-> Arg(params, "temperature", PyFloat(7)),
     top_p |-> Arg(params, "top_p", PyNone),
     frequency_penalty |-> Arg(params, "frequency_penalty", PyFloat(0)),
     presence_penalty |-> Arg(params, "presence_penalty", PyFloat(0)),
     stop |-> Arg(params, "stop", PyNone)]

----------------------------------------------------------------------------
(* services/openai_service.py: the call of the adapter *)

\* mutant: temperature and top_p change places in the positional call
OpenAIService_generate_text_call_swapped(a) ==
    [prompt |-> a.prompt, model |-> a.model, max_tokens |-> a.max_tokens,
     temperature |-> a.top_p, top_p |-> a.temperature,
     frequency_penalty |-> a.frequency_penalty,
     presence_penalty |-> a.presence_penalty, stop |-> a.stop]

\* the eight arguments, passed positionally to openai_utils.generate_text
OpenAIService_generate_text_call(a) ==
    [prompt |-> a.prompt, model |-> a.model, max_tokens |-> a.max_tokens,
     temperature |-> a.temperature, top_p |-> a.top_p,
     frequency_penalty |-> a.frequency_penalty,
     presence_penalty |-> a.presence_penalty, stop |-> a.stop]

OpenAIService_translate_text_call(a) ==
    [text |-> a.text, target_language |-> a.target_language, model |-> a.model]

OpenAIService_complete_code_call(a) ==
    [prompt |-> a.prompt, model |-> a.model, max_tokens |-> a.max_tokens,
     temperature |-> a.temperature, top_p |-> a.top_p,
     frequency_penalty |-> a.frequency_penalty,
     presence_penalty |-> a.presence_penalty, stop |-> a.stop]

----------------------------------------------------------------------------
(* utils/openai_utils.py: the call of the provider *)

\* openai.Completion.create(engine=model, prompt=prompt, max_tokens=..., ...):
\* every keyword is passed, whatever its value
OpenAIUtils_generate_text_call(a) ==
    [api |-> "Completion.create",
     kwargs |-> [engine |-> a.model, prompt |-> a.prompt,
                 max_tokens |-> a.max_tokens, temperature |-> a.temperature,
                 top_p |-> a.top_p,
                 frequency_penalty |-> a.frequency_penalty,
                 presence_penalty |-> a.presence_penalty, stop |-> a.stop]]

\* mutant: the target language is stripped of blanks before it is inserted
OpenAIUtils_translate_text_call_stripped(a) ==
    [api |-> "ChatCompletion.create",
     kwargs |-> [model |-> a.model,
                 messages |-> << [role |-> "user",
                                  content |-> <<"Translate this text into ">>
                                              \o SelectSeq(a.target_language.v,
                                                           LAMBDA c : c # " ")
                                              \o <<": ">> \o a.text.v] >>]]

\* openai.ChatCompletion.create(model=model, messages=[{"role": "user",
\*   "content": f"Translate this text into {target_language}: {text}"}])
OpenAIUtils_translate_text_call(a) ==
    [api |-> "ChatCompletion.create",
     kwargs |-> [model |-> a.model,
                 messages |-> << [role |-> "user",
                                  content |-> <<"Translate this text into ">>
                                              \o a.target_language.v
                                              \o <<": ">> \o a.text.v] >>]]

OpenAIUtils_complete_code_call(a) ==
    [api |-> "Completion.create",
     kwargs |-> [engine |-> a.model, prompt |-> a.prompt,
                 max_tokens |-> a.max_tokens, temperature |-> a.temperature,
                 top_p |-> a.top_p,
                 frequency_penalty |-> a.frequency_penalty,
                 presence_penalty |-> a.presence_penalty, stop |-> a.stop]]

----------------------------------------------------------------------------
(* The provider: how one upstream call can end.  The provider is outside   *)
(* the repository: its call is awaited and ends by returning a response    *)
(* object or by raising.                                                   *)

\* one element of a response's choices: a completion choice (text), a chat
\* choice (message.content), or one with neither field
Choices ==
    { [text |-> <<"X">>], [text |-> <<"Z">>],
      [message |-> [content |-> <<"Y">>]], [index |-> 0] }

Responses == { [choices |-> c] : c \in UNION {[1..n -> Choices] : n \in 0..MaxChoices} }

\* openai.error.APIError raised by the call
APIErrors == { Exc("APIError", <<"server error">>) }

\* any exception of another class raised by the call (a connection fault, a
\* timeout, an OpenAIError that is no APIError)
OtherErrors == { Exc("Exception", <<"timed out">>) }

----------------------------------------------------------------------------
(* utils/openai_utils.py: after the provider call *)

\* try: response = await openai.Completion.create(...); return response
\* except openai.error.APIError as e: raise HTTPException(500, f"OpenAI API Error: {e}")
\* except Exception as e: raise HTTPException(500, f"Error generating text: {e}")
OpenAIUtils_generate_text(out) ==
    IF out.kind = "return" THEN Return(out.value)
    ELSE IF out.exc.type = "APIError"
    THEN Raise(HTTPException(500, <<"OpenAI API Error: ">> \o Str(out.exc)))
    ELSE Raise(HTTPException(500, <<"Error generating text: ">> \o Str(out.exc)))

OpenAIUtils_translate_text(out) ==
    IF out.kind = "return" THEN Return(out.value)
    ELSE IF out.exc.type = "APIError"
    THEN Raise(HTTPException(500, <<"OpenAI API Error: ">> \o Str(out.exc)))
    ELSE Raise(HTTPException(500, <<"Error translating text: ">> \o Str(out.exc)))

\* mutant: a single `except Exception` clause for every failure
OpenAIUtils_complete_code_collapsed(out) ==
    IF out.kind = "return" THEN Return(out.value)
    ELSE Raise(HTTPException(500, <<"Error completing code: ">> \o Str(out.exc)))

OpenAIUtils_complete_code(out) ==
    IF out.kind = "return" THEN Return(out.value)
    ELSE IF out.exc.type = "APIError"
    THEN Raise(HTTPException(500, <<"OpenAI API Error: ">> \o Str(out.exc)))
    ELSE Raise(HTTPException(500, <<"Error completing code: ">> \o Str(out.exc)))

----------------------------------------------------------------------------
(* services/openai_service.py: extraction and error mapping *)

\* mutant: indexes the last choice, response.choices[-1].text
choices_last_text(response) ==
    IF Len(response.choices) = 0
    THEN Raise(Exc("IndexError", <<"list index out of range">>))
    ELSE IF "text" \notin DOMAIN response.choices[Len(response.choices)]
    THEN Raise(Exc("AttributeError", <<"text">>))
    ELSE Return(response.choices[Len(response.choices)].text)

\* response.choices[0].text: IndexError on an empty list, AttributeError on a
\* choice without the field
choices_0_text(response) ==
    IF Len(response.choices) = 0
    THEN Raise(Exc("IndexError", <<"list index out of range">>))
    ELSE IF "text" \notin DOMAIN response.choices[1]
    THEN Raise(Exc("AttributeError", <<"text">>))
    ELSE Return(response.choices[1].text)

\* mutant: response.choices[0].message.content if response.choices else ""
choices_0_message_content_or_empty(response) ==
    IF Len(response.choices) = 0
    THEN Return(<<>>)
    ELSE IF "message" \notin DOMAIN response.choices[1]
    THEN Raise(Exc("AttributeError", <<"message">>))
    ELSE Return(response.choices[1].message.content)

\* response.choices[0].message.content
choices_0_message_content(response) ==
    IF Len(response.choices) = 0
    THEN Raise(Exc("IndexError", <<"list index out of range">>))
    ELSE IF "message" \notin DOMAIN response.choices[1]
    THEN Raise(Exc("AttributeError", <<"message">>))
    ELSE Return(response.choices[1].message.content)

\* try: response = await self.openai_utils.generate_text(...)
\*      return {"text": response.choices[0].text}
\* except openai.error.APIError as e: raise HTTPException(500, f"OpenAI API Error: {e}")
\* except Exception as e: raise HTTPException(500, f"Error generating text: {e}")
OpenAIService_generate_text(out) ==
    LET body == IF out.kind = "raise" THEN out
                ELSE LET x == choices_0_text(out.value)
                     IN IF x.kind = "raise" THEN x
                        ELSE Return([text |-> x.value])
    IN IF body.kind = "return" THEN body
       ELSE IF body.exc.type = "APIError"
       THEN Raise(HTTPException(500, <<"OpenAI API Error: ">> \o Str(body.exc)))
       ELSE Raise(HTTPException(500, <<"Error generating text: ">> \o Str(body.exc)))

\* mutant: the result key of generate_text, {"text": ...}
OpenAIService_translate_text_textkey(out) ==
    LET body == IF out.kind = "raise" THEN out
                ELSE LET x == choices_0_message_content(out.value)
                     IN IF x.kind = "raise" THEN x
                        ELSE Return([text |-> x.value])
    IN IF body.kind = "return" THEN body
       ELSE IF body.exc.type = "APIError"
       THEN Raise(HTTPException(500, <<"OpenAI API Error: ">> \o Str(body.exc)))
       ELSE Raise(HTTPException(500, <<"Error translating text: ">> \o Str(body.exc)))

OpenAIService_translate_text(out) ==
    LET body == IF out.kind = "raise" THEN out
                ELSE LET x == choices_0_message_content(out.value)
                     IN IF x.kind = "raise" THEN x
                        ELSE Return([translation |-> x.value])
    IN IF body.kind = "return" THEN body
       ELSE IF body.exc.type = "APIError"
       THEN Raise(HTTPException(500, <<"OpenAI API Error: ">> \o Str(body.exc)))
       ELSE Raise(HTTPException(500, <<"Error translating text: ">> \o Str(body.exc)))

\* mutant: the result key of generate_text, {"text": ...}
OpenAIService_complete_code_textkey(out) ==
    LET body == IF out.kind = "raise" THEN out
                ELSE LET x == choices_0_text(out.value)
                     IN IF x.kind = "raise" THEN x
                        ELSE Return([text |-> x.value])
    IN IF body.kind = "return" THEN body
       ELSE IF body.exc.type = "APIError"
       THEN Raise(HTTPException(500, <<"OpenAI API Error: ">> \o Str(body.exc)))
       ELSE Raise(HTTPException(500, <<"Error completing code: ">> \o Str(body.exc)))

OpenAIService_complete_code(out) ==
    LET body == IF out.kind = "raise" THEN out
                ELSE LET x == choices_0_text(out.value)
                     IN IF x.kind = "raise" THEN x
                        ELSE Return([code |-> x.value])
    IN IF body.kind = "return" THEN body
       ELSE IF body.exc.type = "APIError"
       THEN Raise(HTTPException(500, <<"OpenAI API Error: ">> \o Str(body.exc)))
       ELSE Raise(HTTPException(500, <<"Error completing code: ">> \o Str(body.exc)))

----------------------------------------------------------------------------
(* routes/api_routes.py: after the service call *)

\* mutant: JSONResponse(content, status_code=201)
JSONResponse_created(content) == [status |-> 201, body |-> content]

\* fastapi.responses.JSONResponse(content): status 200, the content as body
JSONResponse(content) == [status |-> 200, body |-> content]

\* try: response = await openai_service.generate_text(...)
\*      return JSONResponse(response)
\* except openai.error.APIError as e: ...
\* except Exception as e: ...
\* The module never imports openai, so matching an exception against the
\* first except clause evaluates the name openai and raises NameError, which
\* leaves the try statement; the second clause is never reached.
route_generate_text(out) ==
    IF out.kind = "return" THEN Return(JSONResponse(out.value))
    ELSE Raise(Exc("NameError", <<"name 'openai' is not defined">>))

route_translate_text(out) ==
    IF out.kind = "return" THEN Return(JSONResponse(out.value))
    ELSE Raise(Exc("NameError", <<"name 'openai' is not defined">>))

route_complete_code(out) ==
    IF out.kind = "return" THEN Return(JSONResponse(out.value))
    ELSE Raise(Exc("NameError", <<"name 'openai' is not defined">>))

----------------------------------------------------------------------------
(* main.py: the exception handlers *)

\* @app.exception_handler(HTTPException): return {"detail": exc.detail}
http_exception_handler(exc) == [detail |-> exc.detail]

\* @app.exception_handler(Exception):
\*   return {"detail": f"An unexpected error occurred: {exc}"}
general_exception_handler(exc) ==
    [detail |-> <<"An unexpected error occurred: ">> \o Str(exc)]

\* the handler registered for the class of the exception a route raised
exception_handler(exc) ==
    IF exc.type = "HTTPException" THEN http_exception_handler(exc)
    ELSE general_exception_handler(exc)

\* What reaches the client.  A route's JSONResponse is sent as it is.  Both
\* handlers return a plain dict, which is no response object: sending it
\* faults, and the server answers the request with its own bare 500, whose
\* body is plain text and carries no "detail".
wire_response(out) ==
    IF out.kind = "return" THEN out.value
    ELSE [status |-> 500, body |-> [plain |-> <<"Internal Server Error">>]]

----------------------------------------------------------------------------
(* The pipeline of one request *)

NoValue == [kind |-> "none"]

\* route -> service -> adapter -> provider, up to the await of the provider call
route_call(q) ==
    CASE q.op = "generate_text" -> route_generate_text_call(q.params)
      [] q.op = "translate_text" -> route_translate_text_call(q.params)
      [] q.op = "complete_code" -> route_complete_code_call(q.params)

OpenAIService_call(op, a) ==
    CASE op = "generate_text" -> OpenAIService_generate_text_call(a)
      [] op = "translate_text" -> OpenAIService_translate_text_call(a)
      [] op = "complete_code" -> OpenAIService_complete_code_call(a)

OpenAIUtils_call(op, a) ==
    CASE op = "generate_text" -> OpenAIUtils_generate_text_call(a)
      [] op = "translate_text" -> OpenAIUtils_translate_text_call(a)
      [] op = "complete_code" -> OpenAIUtils_complete_code_call(a)

\* provider -> adapter -> service -> route, from the await to the end
OpenAIUtils_result(op, out) ==
    CASE op = "generate_text" -> OpenAIUtils_generate_text(out)
      [] op = "translate_text" -> OpenAIUtils_translate_text(out)
      [] op = "complete_code" -> OpenAIUtils_complete_code(out)

OpenAIService_result(op, out) ==
    CASE op = "generate_text" -> OpenAIService_generate_text(out)
      [] op = "translate_text" -> OpenAIService_translate_text(out)
      [] op = "complete_code" -> OpenAIService_complete_code(out)

route_result(op, out) ==
    CASE op = "generate_text" -> route_generate_text(out)
      [] op = "translate_text" -> route_translate_text(out)
      [] op = "complete_code" -> route_complete_code(out)

----------------------------------------------------------------------------
(* State machine *)

Init ==
    /\ build \in Builds
    /\ nslots = 1
    /\ pc = [r \in Reqs |-> "idle"]
    /\ request = [r \in Reqs |-> NoValue]
    /\ svcCall = [r \in Reqs |-> NoValue]
    /\ adpCall = [r \in Reqs |-> NoValue]
    /\ provCalls = [r \in Reqs |-> <<>>]
    /\ provOut = [r \in Reqs |-> Pending]
    /\ adp = [r \in Reqs |-> Pending]
    /\ svc = [r \in Reqs |-> Pending]
    /\ rt = [r \in Reqs |-> Pending]
    /\ handled = [r \in Reqs |-> NoValue]
    /\ http = [r \in Reqs |-> NoValue]

\* A request arrives; the route calls the service, the service the adapter,
\* and the adapter issues the provider call and is suspended at its await.
Receive(r) ==
    /\ r \in 1..nslots
    /\ pc[r] = "idle"
    /\ \E q \in Requests :
         LET sa == route_call(q)
             aa == OpenAIService_call(q.op, sa)
         IN /\ request' = [request EXCEPT ![r] = q]
            /\ svcCall' = [svcCall EXCEPT ![r] = sa]
            /\ adpCall' = [adpCall EXCEPT ![r] = aa]
            /\ provCalls' = [provCalls EXCEPT ![r] = Append(@, OpenAIUtils_call(q.op, aa))]
    /\ pc' = [pc EXCEPT ![r] = "awaiting"]
    /\ UNCHANGED <<build, nslots, provOut, adp, svc, rt, handled, http>>

\* mutant: the adapter issues the call once more after a first failure
Resume_retry(r, out) ==
    /\ pc[r] = "awaiting"
    /\ IF out.kind = "raise" /\ Len(provCalls[r]) = 1
       THEN /\ provCalls' = [provCalls EXCEPT ![r] = Append(@, @[1])]
            /\ UNCHANGED <<pc, provOut, adp, svc, rt, handled, http>>
       ELSE LET op == request[r].op
                a == OpenAIUtils_result(op, out)
                s == OpenAIService_result(op, a)
                t == route_result(op, s)
            IN /\ provOut' = [provOut EXCEPT ![r] = out]
               /\ adp' = [adp EXCEPT ![r] = a]
               /\ svc' = [svc EXCEPT ![r] = s]
               /\ rt' = [rt EXCEPT ![r] = t]
               /\ handled' = [handled EXCEPT ![r] =
                                 IF t.kind = "raise" THEN exception_handler(t.exc)
                                 ELSE NoValue]
               /\ http' = [http EXCEPT ![r] = wire_response(t)]
               /\ pc' = [pc EXCEPT ![r] = "done"]
               /\ UNCHANGED provCalls
    /\ UNCHANGED <<build, nslots, request, svcCall, adpCall>>

\* mutant: the outcome is kept in state shared by the requests in flight, so
\* it is delivered to every request suspended at its provider call
Resume_shared(r, out) ==
    /\ pc[r] = "awaiting"
    /\ LET op == request[r].op
           a == OpenAIUtils_result(op, out)
           s == OpenAIService_result(op, a)
           t == route_result(op, s)
           hit == {x \in Reqs : pc[x] = "awaiting"}
       IN /\ provOut' = [x \in Reqs |-> IF x \in hit THEN out ELSE provOut[x]]
          /\ adp' = [x \in Reqs |-> IF x \in hit THEN a ELSE adp[x]]
          /\ svc' = [x \in Reqs |-> IF x \in hit THEN s ELSE svc[x]]
          /\ rt' = [x \in Reqs |-> IF x \in hit THEN t ELSE rt[x]]
          /\ handled' = [x \in Reqs |->
                            IF x \in hit
                            THEN IF t.kind = "raise" THEN exception_handler(t.exc)
                                 ELSE NoValue
                            ELSE handled[x]]
          /\ http' = [x \in Reqs |-> IF x \in hit THEN wire_response(t) ELSE http[x]]
          /\ pc' = [x \in Reqs |-> IF x \in hit THEN "done" ELSE pc[x]]
    /\ UNCHANGED <<build, nslots, request, svcCall, adpCall, provCalls>>

\* The provider call of request r ends with out; the adapter, the service,
\* the route and the application's exception handling run to the end.
Resume(r, out) ==
    /\ pc[r] = "awaiting"
    /\ LET op == request[r].op
           a == OpenAIUtils_result(op, out)
           s == OpenAIService_result(op, a)
           t == route_result(op, s)
       IN /\ provOut' = [provOut EXCEPT ![r] = out]
          /\ adp' = [adp EXCEPT ![r] = a]
          /\ svc' = [svc EXCEPT ![r] = s]
          /\ rt' = [rt EXCEPT ![r] = t]
          /\ handled' = [handled EXCEPT ![r] =
                            IF t.kind = "raise" THEN exception_handler(t.exc)
                            ELSE NoValue]
          /\ http' = [http EXCEPT ![r] = wire_response(t)]
    /\ pc' = [pc EXCEPT ![r] = "done"]
    /\ UNCHANGED <<build, nslots, request, svcCall, adpCall, provCalls>>

ProviderReturns(r) == \E resp \in Responses : Resume(r, Return(resp))

ProviderRaisesAPIError(r) == \E e \in APIErrors : Resume(r, Raise(e))

ProviderRaisesOther(r) == \E e \in OtherErrors : Resume(r, Raise(e))

Next ==
    \E r \in Reqs :
        \/ Receive(r)
        \/ ProviderReturns(r)
        \/ ProviderRaisesAPIError(r)
        \/ ProviderRaisesOther(r)

Spec == Init /\ [][Next]_vars

TypeOK ==
    /\ build \in Builds
    /\ \A r \in Reqs : pc[r] \in {"idle", "awaiting", "done"}

----------------------------------------------------------------------------
(* Vocabulary of the properties *)

Done(r) == pc[r] = "done"

OpIs(r, op) == pc[r] # "idle" /\ request[r].op = op

\* the adapter returned a response whose choices[0] has the field f
AdapterReturnedWith(r, f) ==
    /\ adp[r].kind = "return"
    /\ Len(adp[r].value.choices) > 0
    /\ f \in DOMAIN adp[r].value.choices[1]

\* the token tok occurs in the string s
Contains(s, tok) == \E i \in DOMAIN s : s[i] = tok

\* the string sub occurs in the string s
Embeds(s, sub) ==
    \E i \in 1..(Len(s) - Len(sub) + 1) : SubSeq(s, i, i + Len(sub) - 1) = sub

\* the detail prefix of the internal error kind, per operation
GenericPrefix(op) ==
    CASE op = "generate_text" -> "Error generating text: "
      [] op = "translate_text" -> "Error translating text: "
      [] op = "complete_code" -> "Error completing code: "

----------------------------------------------------------------------------
(* C1 - C3: the service's normalization *)

\* C1: whenever the adapter's generate_text returns a response whose
\* choices[0].text is X, the service's generate_text returns exactly the
\* single-key mapping {"text": X}.
C1_GenerateTextNormalized ==
    \A r \in Reqs :
        (Done(r) /\ OpIs(r, "generate_text") /\ AdapterReturnedWith(r, "text"))
        => /\ svc[r].kind = "return"
           /\ DOMAIN svc[r].value = {"text"}
           /\ svc[r].value.text = adp[r].value.choices[1].text

\* a response with two different choices was normalized to the first one's text
C1_Witness ==
    \E r \in Reqs :
        /\ Done(r) /\ OpIs(r, "generate_text")
        /\ adp[r] = Return([choices |-> <<[text |-> <<"X">>], [text |-> <<"Z">>]>>])
        /\ svc[r] = Return([text |-> <<"X">>])

\* C2: whenever the adapter's translate_text returns a response whose
\* choices[0].message.content is Y, the service's translate_text returns
\* exactly the single-key mapping {"translation": Y}.
C2_TranslateTextNormalized ==
    \A r \in Reqs :
        (Done(r) /\ OpIs(r, "translate_text") /\ AdapterReturnedWith(r, "message"))
        => /\ svc[r].kind = "return"
           /\ DOMAIN svc[r].value = {"translation"}
           /\ svc[r].value.translation = adp[r].value.choices[1].message.content

C2_Witness ==
    \E r \in Reqs :
        /\ Done(r) /\ OpIs(r, "translate_text")
        /\ adp[r] = Return([choices |-> <<[message |-> [content |-> <<"Y">>]],
                                          [text |-> <<"X">>]>>])
        /\ svc[r] = Return([translation |-> <<"Y">>])

\* C3: whenever the adapter's complete_code returns a response whose
\* choices[0].text is Z, the service's complete_code returns exactly the
\* single-key mapping {"code": Z}.
C3_CompleteCodeNormalized ==
    \A r \in Reqs :
        (Done(r) /\ OpIs(r, "complete_code") /\ AdapterReturnedWith(r, "text"))
        => /\ svc[r].kind = "return"
           /\ DOMAIN svc[r].value = {"code"}
           /\ svc[r].value.code = adp[r].value.choices[1].text

C3_Witness ==
    \E r \in Reqs :
        /\ Done(r) /\ OpIs(r, "complete_code")
        /\ adp[r] = Return([choices |-> <<[text |-> <<"Z">>], [text |-> <<"X">>]>>])
        /\ svc[r] = Return([code |-> <<"Z">>])

----------------------------------------------------------------------------
(* C4: the success path of the routes *)

----------------------------------------------------------------------------
(* C5 - C7, C9: failures *)

ProviderRaised(r, type) ==
    provOut[r].kind = "raise" /\ provOut[r].exc.type = type

\* the first exception of request r: the one the provider call raised, or
\* the one the service's extraction raised on the response
first_failure(r) ==
    IF provOut[r].kind = "raise" THEN provOut[r]
    ELSE IF request[r].op = "translate_text"
    THEN choices_0_message_content(provOut[r].value)
    ELSE choices_0_text(provOut[r].value)

\* C5: when the provider call fails with openai APIError, the HTTP response
\* has status 500 and a detail containing "OpenAI API Error".
C5_UpstreamFaultSurfaced ==
    \A r \in Reqs :
        (Done(r) /\ ProviderRaised(r, "APIError"))
        => /\ http[r].status = 500
           /\ "detail" \in DOMAIN handled[r]
           /\ Contains(handled[r].detail, "OpenAI API Error: ")

\* C6: the service reports a provider error signalled by the adapter with
\* the detail prefix "OpenAI API Error: ", and every other failure with the
\* operation's generic prefix.
C6_ErrorKindsPreserved ==
    \A r \in Reqs :
        (Done(r) /\ svc[r].kind = "raise")
        => IF ProviderRaised(r, "APIError")
           THEN svc[r].exc.detail[1] = "OpenAI API Error: "
           ELSE svc[r].exc.detail[1] = GenericPrefix(request[r].op)

\* C7: when the adapter returns a response with no choices, the service
\* raises HTTPException(500) with the operation's generic detail; no
\* IndexError escapes and no result is returned.
C7_EmptyChoicesIsInternalError ==
    \A r \in Reqs :
        (Done(r) /\ adp[r].kind = "return" /\ Len(adp[r].value.choices) = 0)
        => svc[r] = Raise(HTTPException(500,
                        <<GenericPrefix(request[r].op), "list index out of range">>))

C7_Witness ==
    \E r \in Reqs :
        /\ Done(r) /\ OpIs(r, "translate_text")
        /\ adp[r] = Return([choices |-> <<>>])
        /\ svc[r].kind = "raise"
        /\ svc[r].exc.type = "HTTPException"

\* C9: every finished request ends either with a normalized single-key
\* result (status 200, nothing failed) or with status 500 and a detail that
\* embeds the text of the underlying exception.
C9_ResultOrError500 ==
    \A r \in Reqs :
        Done(r)
        => \/ /\ first_failure(r).kind = "return"
              /\ http[r].status = 200
              /\ Cardinality(DOMAIN http[r].body) = 1
              /\ http[r].body = svc[r].value
           \/ /\ first_failure(r).kind = "raise"
              /\ http[r].status = 500
              /\ "detail" \in DOMAIN handled[r]
              /\ Embeds(handled[r].detail, first_failure(r).exc.msg)

----------------------------------------------------------------------------
(* C8, C10: what is sent downstream *)

\* C8: an optional parameter (max_tokens, top_p, stop) the caller omitted is
\* absent from the calls route -> service, service -> adapter and
\* adapter -> provider of generate_text and complete_code.
C8_OmittedStaysAbsent ==
    \A r \in Reqs :
        (pc[r] # "idle" /\ request[r].op \in {"generate_text", "complete_code"})
        => \A n \in Nullable \ DOMAIN request[r].params :
              /\ n \notin DOMAIN svcCall[r]
              /\ n \notin DOMAIN adpCall[r]
              /\ \A i \in DOMAIN provCalls[r] : n \notin DOMAIN provCalls[r][i].kwargs

\* C10: the adapter's translate_text issues one chat call whose messages are
\* exactly one user message with content
\* "Translate this text into " + target_language + ": " + text, both
\* inserted verbatim, and with the model it was given.
C10_TranslatePrompt ==
    \A r \in Reqs :
        OpIs(r, "translate_text")
        => /\ Len(provCalls[r]) = 1
           /\ provCalls[r][1].api = "ChatCompletion.create"
           /\ DOMAIN provCalls[r][1].kwargs = {"model", "messages"}
           /\ provCalls[r][1].kwargs.model = adpCall[r].model
           /\ provCalls[r][1].kwargs.messages =
                << [role |-> "user",
                    content |-> <<"Translate this text into ">>
                                \o adpCall[r].target_language.v
                                \o <<": ">> \o adpCall[r].text.v] >>

\* a blank target language and a text reached the provider unchanged
C10_Witness ==
    \E r \in Reqs :
        /\ OpIs(r, "translate_text")
        /\ adpCall[r].target_language = PyStr(<<" ">>)
        /\ adpCall[r].text = PyStr(<<"a">>)
        /\ provCalls[r][1].kwargs.messages[1].content =
              <<"Translate this text into ", " ", ": ", "a">>

----------------------------------------------------------------------------
(* C11: parameters reach the service and the adapter unchanged *)

\* the parameters of an endpoint
ParamNames(op) ==
    IF op = "translate_text" THEN {"text", "target_language", "model"}
    ELSE {"prompt"} \cup Nullable \cup Defaulted

\* the documented default of an optional parameter
DocumentedDefault(op, n) ==
    CASE n = "model" /\ op = "generate_text" -> PyStr(<<"text-davinci-003">>)
      [] n = "model" /\ op = "translate_text" -> PyStr(<<"gpt-3.5-turbo">>)
      [] n = "model" /\ op = "complete_code" -> PyStr(<<"code-davinci-002">>)
      [] n = "temperature" -> PyFloat(7)
      [] n = "frequency_penalty" -> PyFloat(0)
      [] n = "presence_penalty" -> PyFloat(0)
      [] n \in Nullable -> PyNone

\* what the caller of request r means parameter n to be
Meant(r, n) ==
    IF n \in DOMAIN request[r].params THEN request[r].params[n]
    ELSE DocumentedDefault(request[r].op, n)

\* C11: on each endpoint the service and the adapter receive, for every
\* parameter, the value the HTTP caller supplied, or the documented default
\* of a parameter the caller omitted; nothing is reordered, dropped or altered.
C11_ParametersPassThrough ==
    \A r \in Reqs :
        pc[r] # "idle"
        => /\ DOMAIN svcCall[r] = ParamNames(request[r].op)
           /\ DOMAIN adpCall[r] = ParamNames(request[r].op)
           /\ \A n \in ParamNames(request[r].op) :
                 /\ svcCall[r][n] = Meant(r, n)
                 /\ adpCall[r][n] = Meant(r, n)

\* a generate_text request that sets top_p and the defaulted parameters and
\* omits max_tokens and stop
C11_Witness ==
    \E r \in Reqs :
        /\ OpIs(r, "generate_text")
        /\ DOMAIN request[r].params = {"prompt", "top_p"} \cup Defaulted
        /\ adpCall[r].top_p = PyFloat(9)
        /\ adpCall[r].temperature = PyFloat(2)
        /\ adpCall[r].model = PyStr(<<"custom-model">>)
        /\ adpCall[r].max_tokens = PyNone

----------------------------------------------------------------------------
(* C12: one provider call per request, no retry *)

\* C12: a request issues at most one provider call (exactly one once it is
\* under way); a failed provider call ends the request, with that failure as
\* its outcome, and no further call is issued for it.
C12_OneProviderCallNoRetry ==
    \A r \in Reqs :
        /\ Len(provCalls[r]) <= 1
        /\ pc[r] # "idle" => Len(provCalls[r]) = 1
        /\ provOut[r].kind = "raise"
           => /\ pc[r] = "done"
              /\ adp[r].kind = "raise"
              /\ svc[r].kind = "raise"
              /\ rt[r].kind = "raise"
              /\ http[r].status = 500

\* a request whose only provider call failed and which ended with that
C12_Witness ==
    \E r \in Reqs :
        /\ Done(r)
        /\ ProviderRaised(r, "Exception")
        /\ Len(provCalls[r]) = 1
        /\ http[r].status = 500

----------------------------------------------------------------------------
(* C13: the adapter's two failure kinds *)

\* C13: when the provider call raises openai APIError the adapter raises
\* HTTPException(500) with detail "OpenAI API Error: " + the error's text;
\* when it raises anything else the adapter raises HTTPException(500) with
\* the operation's generic prefix + the error's text; the two details differ
\* in their prefix, and after a failed call the adapter returns no response.
C13_AdapterFailureKinds ==
    \A r \in Reqs :
        (Done(r) /\ provOut[r].kind = "raise")
        => /\ adp[r].kind = "raise"
           /\ adp[r].exc.type = "HTTPException"
           /\ adp[r].exc.status_code = 500
           /\ IF provOut[r].exc.type = "APIError"
              THEN /\ adp[r].exc.detail = <<"OpenAI API Error: ">> \o provOut[r].exc.msg
                   /\ adp[r].exc.detail[1] # GenericPrefix(request[r].op)
              ELSE /\ adp[r].exc.detail =
                         <<GenericPrefix(request[r].op)>> \o provOut[r].exc.msg
                   /\ adp[r].exc.detail[1] # "OpenAI API Error: "

\* complete_code's provider call raised APIError and the adapter reported it
\* as a provider error
C13_Witness ==
    \E r \in Reqs :
        /\ Done(r) /\ OpIs(r, "complete_code")
        /\ ProviderRaised(r, "APIError")
        /\ adp[r] = Raise(HTTPException(500, <<"OpenAI API Error: ", "server error">>))

----------------------------------------------------------------------------
(* Concurrent requests: every slot in use, each request suspended at its   *)
(* own provider call, the calls ending in any order                        *)

\* a menu of requests of the three endpoints
ConcRequests ==
    { [op |-> "generate_text", params |-> [n \in {"prompt"} |-> PyStr(<<"a">>)]],
      [op |-> "generate_text",
       params |-> [n \in {"prompt", "max_tokens"} |->
                      IF n = "prompt" THEN PyStr(<<" ">>) ELSE Supplied(n)]],
      [op |-> "translate_text",
       params |-> [n \in {"text", "target_language"} |->
                      IF n = "text" THEN PyStr(<<"a">>) ELSE PyStr(<<" ">>)]],
      [op |-> "complete_code",
       params |-> [n \in {"prompt"} \cup Defaulted |->
                      IF n = "prompt" THEN PyStr(<<"a">>) ELSE Supplied(n)]] }

\* a menu of ways the provider call can end
ConcOutcomes ==
    { Return([choices |-> <<[text |-> <<"X">>]>>]),
      Return([choices |-> <<[text |-> <<"Z">>]>>]),
      Return([choices |-> <<[message |-> [content |-> <<"Y">>]]>>]),
      Return([choices |-> <<>>]) }
    \cup { Raise(e) : e \in APIErrors \cup OtherErrors }

InitConc ==
    /\ build \in Builds
    /\ nslots = MaxReqs
    /\ pc = [r \in Reqs |-> "idle"]
    /\ request = [r \in Reqs |-> NoValue]
    /\ svcCall = [r \in Reqs |-> NoValue]
    /\ adpCall = [r \in Reqs |-> NoValue]
    /\ provCalls = [r \in Reqs |-> <<>>]
    /\ provOut = [r \in Reqs |-> Pending]
    /\ adp = [r \in Reqs |-> Pending]
    /\ svc = [r \in Reqs |-> Pending]
    /\ rt = [r \in Reqs |-> Pending]
    /\ handled = [r \in Reqs |-> NoValue]
    /\ http = [r \in Reqs |-> NoValue]

ConcReceive(r) ==
    /\ r \in 1..nslots
    /\ pc[r] = "idle"
    /\ \E q \in ConcRequests :
         LET sa == route_call(q)
             aa == OpenAIService_call(q.op, sa)
         IN /\ request' = [request EXCEPT ![r] = q]
            /\ svcCall' = [svcCall EXCEPT ![r] = sa]
            /\ adpCall' = [adpCall EXCEPT ![r] = aa]
            /\ provCalls' = [provCalls EXCEPT ![r] = Append(@, OpenAIUtils_call(q.op, aa))]
    /\ pc' = [pc EXCEPT ![r] = "awaiting"]
    /\ UNCHANGED <<build, nslots, provOut, adp, svc, rt, handled, http>>

ConcResume(r) == \E out \in ConcOutcomes : Resume(r, out)

NextConc == \E r \in Reqs : ConcReceive(r) \/ ConcResume(r)

SpecConc == InitConc /\ [][NextConc]_vars

----------------------------------------------------------------------------
(* C14: requests in flight do not touch each other *)

\* everything the model keeps about request r
Slot(r) ==
    <<pc[r], request[r], svcCall[r], adpCall[r], provCalls[r], provOut[r],
      adp[r], svc[r], rt[r], handled[r], http[r]>>

\* the outcome of a request as a function of its own request and its own
\* provider response
OwnOutcome(q, out) ==
    LET a == OpenAIUtils_result(q.op, out)
        s == OpenAIService_result(q.op, a)
        t == route_result(q.op, s)
    IN <<a, s, t, wire_response(t)>>

\* C14: under any interleaving of requests in flight, a step of one request
\* leaves everything of every other request as it was, the calls a request
\* issues depend on its own parameters only, and its outcome depends on its
\* own parameters and its own provider response only.
C14_RequestsIndependent ==
    [][\A r \in Reqs :
           IF pc'[r] = pc[r] THEN Slot(r)' = Slot(r)
           ELSE /\ \A x \in Reqs \ {r} : Slot(x)' = Slot(x)
                /\ pc'[r] = "awaiting"
                   => /\ svcCall'[r] = route_call(request'[r])
                      /\ provCalls'[r] =
                            <<OpenAIUtils_call(request'[r].op,
                                  OpenAIService_call(request'[r].op,
                                      route_call(request'[r])))>>
                /\ pc'[r] = "done"
                   => /\ request'[r] = request[r]
                      /\ provCalls'[r] = provCalls[r]
                      /\ <<adp'[r], svc'[r], rt'[r], http'[r]>> =
                            OwnOutcome(request[r], provOut'[r])]_vars

\* a request of the same endpoint finished with a result while another was
\* still suspended at its provider call
C14_Witness ==
    \E r, x \in Reqs :
        /\ r # x
        /\ pc[r] = "awaiting" /\ Done(x)
        /\ request[r].op = "generate_text" /\ request[x].op = "generate_text"
        /\ request[r] # request[x]
        /\ http[x] = [status |-> 200, body |-> [text |-> <<"X">>]]
        /\ http[r] = NoValue

====
